---------------------------- MODULE Spec2Model ----------------------------
(***************************************************************************)
(* Fund Comparator (src/app.py): a Streamlit page.  Every user interaction *)
(* re-runs the script top to bottom: the registry is loaded (memoised),    *)
(* the widgets are read, the Add / uncheck / Clear handlers update the     *)
(* session's compare_basket, the chart engine resolves the fetch targets,  *)
(* fetches each NAV history through a 24 h cache, filters it to the        *)
(* lookback window, rebases it to 100 and tabulates return / CAGR.         *)
(*                                                                         *)
(* Representation.  A Python str is a sequence of one-character strings    *)
(* (so that strip, upper, split and str comparison are computed, not       *)
(* assumed).  A date is a record [y, m, d].  A NAV is an integer number of *)
(* hundredths.  A float result is a record [cls, n, d]: the exact quotient *)
(* n/d ("num"), or IEEE inf / nan as numpy float64 division produces them. *)
(***************************************************************************)
EXTENDS Integers, Sequences, FiniteSets, TLC

VARIABLES
    registry_file,    \* scheme_registry.json as found on disk
    loaded,           \* load_fund_registry has run (st.cache_data memoises it)
    amc_map,          \* load_fund_registry()[0]: group key -> list of items
    raw_registry,     \* load_fund_registry()[1]: list of <<isin, meta>> (a dict, in file order)
    load_error,       \* st.error was shown by load_fund_registry
    compare_basket,   \* st.session_state["compare_basket"]
    guest_input,      \* sidebar text_input "ISIN or AMFI Code"
    guest_name,       \* sidebar text_input "Label"
    range_label,      \* sidebar pills "Lookback"
    remote,           \* the AMFI API: code -> the response it gives now
    nav_cache,        \* st.cache_data store of get_nav_history: code -> entry
    now,              \* wall clock, seconds
    net_requests,     \* codes requested over the network by the last step, in order
    last_fetch,       \* code -> time of its last network request (None: never)
    call,             \* the last direct get_nav_history call: its code and result
    final_targets,    \* chart engine: the resolved fetch targets of the last run
    fig,              \* chart engine: the traces of the last run
    has_data,         \* chart engine: has_data of the last run
    metrics_list,     \* chart engine: the metrics rows of the last run
    page_error,       \* the last run ended with an uncaught exception
    ran,              \* the step under study has run on the inputs in the state
    series_in,        \* a NAV DataFrame handed to the series functions
    series_out        \* what the series functions returned for it

vars == <<registry_file, loaded, amc_map, raw_registry, load_error,
          compare_basket, guest_input, guest_name, range_label,
          remote, nav_cache, now, net_requests, last_fetch, call,
          final_targets, fig, has_data, metrics_list, page_error, ran,
          series_in, series_out>>

----------------------------------------------------------------------------
(* Python str and list helpers                                             *)

Range(s) == {s[i] : i \in 1..Len(s)}

\* Code-point order of the characters the model uses (ASCII order).
CharOrder == <<" ", "0", "1", "2", "3", "A", "B", "E", "H", "K", "L", "O", "R", "T", "a", "b", "k">>

Ord(c) == CHOOSE i \in 1..Len(CharOrder) : CharOrder[i] = c

\* str.upper, per character
UpperChar(c) ==
    CASE c = "a" -> "A"
      [] c = "b" -> "B"
      [] c = "k" -> "K"
      [] OTHER -> c

Upper(s) == [i \in 1..Len(s) |-> UpperChar(s[i])]

IsSpace(c) == c = " "

RECURSIVE LStrip(_)
LStrip(s) == IF s # <<>> /\ IsSpace(Head(s)) THEN LStrip(Tail(s)) ELSE s

RECURSIVE RStrip(_)
RStrip(s) ==
    IF s # <<>> /\ IsSpace(s[Len(s)]) THEN RStrip(SubSeq(s, 1, Len(s) - 1)) ELSE s

\* str.strip()
Strip(s) == RStrip(LStrip(s))

\* the first len-maximal run of non-space characters of a string that starts
\* with a non-space character
RECURSIVE TakeWord(_)
TakeWord(s) ==
    IF s = <<>> \/ IsSpace(Head(s)) THEN <<>> ELSE <<Head(s)>> \o TakeWord(Tail(s))

\* str.split() has no element: the string is empty or all whitespace
SplitIsEmpty(s) == LStrip(s) = <<>>

\* str.split()[0], defined when the split is not empty
SplitFirst(s) == TakeWord(LStrip(s))

\* Python's str < str: lexicographic by code point, a proper prefix is smaller
RECURSIVE StrLess(_, _)
StrLess(a, b) ==
    IF b = <<>> THEN FALSE
    ELSE IF a = <<>> THEN TRUE
    ELSE IF Head(a) # Head(b) THEN Ord(Head(a)) < Ord(Head(b))
    ELSE StrLess(Tail(a), Tail(b))

\* str(n) of a non-negative int
RECURSIVE IntToStr(_)
IntToStr(n) ==
    LET digit == <<"0", "1", "2", "3", "4", "5", "6", "7", "8", "9">>[(n % 10) + 1]
    IN  IF n < 10 THEN <<digit>> ELSE IntToStr(n \div 10) \o <<digit>>

----------------------------------------------------------------------------
(* JSON values of the registry                                             *)

\* meta.get("amfi"): absent (None), a JSON string or a JSON number
AmfiAbsent == [k |-> "absent", s |-> <<>>, n |-> 0]
AmfiStr(s) == [k |-> "str", s |-> s, n |-> 0]
AmfiNum(n) == [k |-> "num", s |-> <<>>, n |-> n]

\* Python truthiness of meta.get("amfi")
Truthy(amfi) ==
    CASE amfi.k = "absent" -> FALSE
      [] amfi.k = "str" -> amfi.s # <<>>
      [] amfi.k = "num" -> amfi.n # 0

\* str(amfi) of a present value
StrOfAmfi(amfi) == IF amfi.k = "num" THEN IntToStr(amfi.n) ELSE amfi.s

\* meta.get("scheme", isin)
SchemeOrKey(isin, meta) == IF meta.has_scheme THEN meta.scheme ELSE isin

\* the "OTHER" sentinel group
OtherGroup == <<"O", "T", "H", "E", "R">>

----------------------------------------------------------------------------
(* 2. DATA ENGINE: load_fund_registry                                      *)

\* A registry file: [status, entries]; entries is the JSON object's members in
\* file order, each [isin, meta], meta = [has_scheme, scheme, amfi].
EntryName(e) == SchemeOrKey(e.isin, e.meta)

\* name.split()[0].upper() if name else "OTHER"   (defined unless the split is empty)
FirstWord(name) == IF name # <<>> THEN Upper(SplitFirst(name)) ELSE OtherGroup

\* name.split()[0] raises IndexError: a non-empty name of whitespace only
FirstWordRaises(name) == name # <<>> /\ SplitIsEmpty(name)

Item(e) == [label |-> EntryName(e), amfi |-> StrOfAmfi(e.meta.amfi), name |-> EntryName(e)]

\* sorted(items, key=label): Python's sort is stable
RECURSIVE InsertByLabel(_, _)
InsertByLabel(sorted, x) ==
    IF sorted = <<>> THEN <<x>>
    ELSE IF StrLess(x.label, Head(sorted).label) THEN <<x>> \o sorted
    ELSE <<Head(sorted)>> \o InsertByLabel(Tail(sorted), x)

RECURSIVE SortedByLabel(_)
SortedByLabel(items) ==
    IF items = <<>> THEN <<>>
    ELSE InsertByLabel(SortedByLabel(SubSeq(items, 1, Len(items) - 1)), items[Len(items)])

\* the loop without its "if amfi:" test
FetchableAll(entries) == entries

\* the entries the loop adds to the index, in file order: if amfi:
RECURSIVE Fetchable(_)
Fetchable(entries) ==
    IF entries = <<>> THEN <<>>
    ELSE (IF Truthy(Head(entries).meta.amfi) THEN <<Head(entries)>> ELSE <<>>)
         \o Fetchable(Tail(entries))

RECURSIVE GroupItems(_, _)
GroupItems(entries, key) ==
    IF entries = <<>> THEN <<>>
    ELSE (IF FirstWord(EntryName(Head(entries))) = key THEN <<Item(Head(entries))>> ELSE <<>>)
         \o GroupItems(Tail(entries), key)

\* json.load's dict: isin -> meta
RawDict(entries) ==
    [k \in {e.isin : e \in Range(entries)} |->
        (CHOOSE e \in Range(entries) : e.isin = k).meta]

EmptyDict == <<>>

\* load_fund_registry(): [amc, raw, err]; err: the except branch ran (st.error)
LoadFundRegistry(file) ==
    IF file.status = "missing" THEN [amc |-> EmptyDict, raw |-> EmptyDict, err |-> FALSE]
    ELSE IF file.status = "malformed" THEN [amc |-> EmptyDict, raw |-> EmptyDict, err |-> TRUE]
    ELSE
        LET kept == Fetchable(file.entries)
            keys == {FirstWord(EntryName(e)) : e \in Range(kept)}
        IN  IF \E e \in Range(kept) : FirstWordRaises(EntryName(e))
            THEN [amc |-> EmptyDict, raw |-> EmptyDict, err |-> TRUE]
            ELSE [amc |-> [g \in keys |-> SortedByLabel(GroupItems(kept, g))],
                  raw |-> RawDict(file.entries),
                  err |-> FALSE]

----------------------------------------------------------------------------
(* Dates (pandas Timestamps at midnight) and float results                 *)

Date(y, m, d) == [y |-> y, m |-> m, d |-> d]

IsLeap(y) == (y % 4 = 0 /\ y % 100 # 0) \/ y % 400 = 0

DaysInMonth(y, m) ==
    IF m = 2 THEN (IF IsLeap(y) THEN 29 ELSE 28)
    ELSE IF m \in {4, 6, 9, 11} THEN 30 ELSE 31

RECURSIVE DaysBeforeMonth(_, _)
DaysBeforeMonth(y, m) == IF m = 1 THEN 0 ELSE DaysBeforeMonth(y, m - 1) + DaysInMonth(y, m - 1)

\* proleptic Gregorian day number: (a - b).days == Ordinal(a) - Ordinal(b)
Ordinal(dt) ==
    LET py == dt.y - 1
    IN  365 * py + (py \div 4) - (py \div 100) + (py \div 400)
        + DaysBeforeMonth(dt.y, dt.m) + dt.d

\* dt - pd.DateOffset(months=n): the month moves back n calendar months and
\* the day is clipped to the length of the month it lands in
MinusMonths(dt, n) ==
    LET idx == dt.y * 12 + (dt.m - 1) - n
        y2 == idx \div 12
        m2 == (idx % 12) + 1
        last == DaysInMonth(y2, m2)
    IN  Date(y2, m2, IF dt.d > last THEN last ELSE dt.d)

RECURSIVE Gcd(_, _)
Gcd(a, b) == IF b = 0 THEN a ELSE Gcd(b, a % b)

Abs(x) == IF x < 0 THEN -x ELSE x

\* float64 n / d as numpy computes it: the quotient in lowest terms, or
\* inf / -inf / nan for a zero divisor (a RuntimeWarning, no exception)
FDiv(n, d) ==
    IF d = 0
    THEN [cls |-> (IF n > 0 THEN "inf" ELSE IF n < 0 THEN "-inf" ELSE "nan"), n |-> 0, d |-> 0]
    ELSE LET g == Gcd(Abs(n), Abs(d))
             sg == IF d < 0 THEN -1 ELSE 1
         IN  [cls |-> "num", n |-> (sg * n) \div g, d |-> (sg * d) \div g]

\* a / b >= p / q for positive b and q
RatGE(a, b, p, q) == a * q >= p * b

\* n / d rounded to the nearest integer (d > 0)
RoundDiv(n, d) == (2 * n + d) \div (2 * d)

----------------------------------------------------------------------------
(* DataFrames: a sequence of rows [date, nav]; nav in hundredths           *)

Row(dt, nav) == [date |-> dt, nav |-> nav]

EmptyFrame == <<>>

\* df["date"].max() of a non-empty frame
MaxDate(df) ==
    LET i == CHOOSE k \in 1..Len(df) :
                 \A j \in 1..Len(df) : Ordinal(df[j].date) <= Ordinal(df[k].date)
    IN  df[i].date

\* df.sort_values("date"): for frames this small numpy's sort is an insertion
\* sort, so rows of equal date keep their order
RECURSIVE InsertByDate(_, _)
InsertByDate(sorted, r) ==
    IF sorted = <<>> THEN <<r>>
    ELSE IF Ordinal(r.date) < Ordinal(Head(sorted).date) THEN <<r>> \o sorted
    ELSE <<Head(sorted)>> \o InsertByDate(Tail(sorted), r)

RECURSIVE SortValues(_)
SortValues(rows) ==
    IF rows = <<>> THEN <<>>
    ELSE InsertByDate(SortValues(SubSeq(rows, 1, Len(rows) - 1)), rows[Len(rows)])

\* df[df["date"] >= start_date]
RECURSIVE RowsFrom(_, _)
RowsFrom(df, start_date) ==
    IF df = <<>> THEN <<>>
    ELSE (IF Ordinal(Head(df).date) >= Ordinal(start_date) THEN <<Head(df)>> ELSE <<>>)
         \o RowsFrom(Tail(df), start_date)

\* lines 178-181
time_map ==
    [l \in {"3M", "6M", "1Y", "2Y", "3Y", "5Y", "Max"} |->
        CASE l = "3M" -> 3 [] l = "6M" -> 6 [] l = "1Y" -> 12 [] l = "2Y" -> 24
          [] l = "3Y" -> 36 [] l = "5Y" -> 60 [] l = "Max" -> 999]

\* df[df["date"] > start_date]
RECURSIVE RowsAfter(_, _)
RowsAfter(df, start_date) ==
    IF df = <<>> THEN <<>>
    ELSE (IF Ordinal(Head(df).date) > Ordinal(start_date) THEN <<Head(df)>> ELSE <<>>)
         \o RowsAfter(Tail(df), start_date)

\* the filter with a strict comparison
ChartFilterStrict(df, months) ==
    IF months # 999 THEN RowsAfter(df, MinusMonths(MaxDate(df), months)) ELSE df

\* lines 340-345: the chart's date-range filter of a non-empty frame
ChartFilter(df, months) ==
    LET end_date == MaxDate(df)
    IN  IF months # 999 THEN RowsFrom(df, MinusMonths(end_date, months)) ELSE df

\* lines 393-397: the metrics table's date-range filter of a non-empty frame
MetricsFilter(df_m, months_m) ==
    LET end_date_m == MaxDate(df_m)
    IN  IF months_m # 999 THEN RowsFrom(df_m, MinusMonths(end_date_m, months_m)) ELSE df_m

\* lines 349-350: df["normalized"] = (df["nav"] / start_val) * 100
Normalized(df) ==
    LET start_val == df[1].nav
    IN  [i \in 1..Len(df) |-> FDiv(df[i].nav * 100, start_val)]

\* the CAGR shown only from a full year on
YearsAtLeast1(days) == days > 0 /\ RatGE(400 * days, 146100, 1, 1)

\* lines 152, 159: years >= 0.9, years = days / 365.25 = 400 * days / 146100
\* if days > 0 else 0
YearsAtLeast09(days) == days > 0 /\ RatGE(400 * days, 146100, 9, 10)

NoRow == [none |-> TRUE, Fund |-> <<>>, total_return |-> FDiv(0, 1), cagr_na |-> TRUE,
          cagr_ratio |-> FDiv(0, 1), cagr_days |-> 0, duration |-> 0,
          start_nav |-> 0, end_nav |-> 0]

\* lines 139-163.  The row keeps what each field is computed from:
\*   total_return  (end_val - start_val) / start_val * 100
\*   cagr_na       the "CAGR (%)" field reads "N/A"
\*   cagr_ratio, cagr_days   cagr = (ratio ** (365.25 / days) - 1) * 100, or 0
\*                           when days is 0 (years = 0)
\*   duration      years to one decimal, in tenths
calculate_metrics(df, label) ==
    IF df = EmptyFrame \/ Len(df) < 2 THEN NoRow
    ELSE
        LET start_val == df[1].nav
            end_val == df[Len(df)].nav
            d0 == Ordinal(df[Len(df)].date) - Ordinal(df[1].date)
            days == IF d0 > 0 THEN d0 ELSE 0
        IN  [none |-> FALSE,
             Fund |-> label,
             total_return |-> FDiv((end_val - start_val) * 100, start_val),
             cagr_na |-> ~YearsAtLeast09(days),
             cagr_ratio |-> IF days > 0 THEN FDiv(end_val, start_val) ELSE FDiv(0, 1),
             cagr_days |-> days,
             duration |-> RoundDiv(4000 * days, 146100),
             start_nav |-> start_val,
             end_nav |-> end_val]

----------------------------------------------------------------------------
(* 2. DATA ENGINE: get_nav_history behind st.cache_data(ttl=86400)         *)

\* line 111: ttl, seconds
TTL == 86400

\* What GET {AMFI_BASE_URL}/{code} does: [kind, rows]
\*   "transport_error"  requests.get raises
\*   "http_error"       status_code != 200
\*   "bad_json"         response.json() raises, or the body is not an object
\*   "no_data_key"      an object without "data": data.get("data", []) is []
\*   "bad_record"       a record whose date or nav does not parse
\*   "ok"               {"data": rows}, rows possibly empty, in any order
Response(kind, rows) == [kind |-> kind, rows |-> rows]

\* the body without a handler for transport errors
FetchParseRaises(resp) ==
    IF resp.kind = "transport_error" THEN [raised |-> TRUE, df |-> EmptyFrame]
    ELSE IF resp.kind = "ok" /\ resp.rows # <<>>
    THEN [raised |-> FALSE, df |-> SortValues(resp.rows)]
    ELSE [raised |-> FALSE, df |-> EmptyFrame]

\* lines 117-136, the function body: [raised, df].  Every exception of the try
\* block is caught, so nothing is raised.
FetchParse(resp) ==
    CASE resp.kind = "transport_error" -> [raised |-> FALSE, df |-> EmptyFrame]
      [] resp.kind = "http_error" -> [raised |-> FALSE, df |-> EmptyFrame]
      [] resp.kind = "bad_json" -> [raised |-> FALSE, df |-> EmptyFrame]
      [] resp.kind = "no_data_key" -> [raised |-> FALSE, df |-> EmptyFrame]
      [] resp.kind = "bad_record" -> [raised |-> FALSE, df |-> EmptyFrame]
      [] resp.kind = "ok" ->
            IF resp.rows = <<>> THEN [raised |-> FALSE, df |-> EmptyFrame]
            ELSE [raised |-> FALSE, df |-> SortValues(resp.rows)]

\* a cache without expiry
CacheFreshForever(cache, t, code) == code \in DOMAIN cache

\* st.cache_data's entry for a code is served while it is younger than ttl
CacheFresh(cache, t, code) ==
    code \in DOMAIN cache /\ t < cache[code].at + TTL

CachePut(cache, t, code, df) ==
    [c \in DOMAIN cache \cup {code} |-> IF c = code THEN [at |-> t, df |-> df] ELSE cache[c]]

\* the cache wrapper around a call that missed and whose body gave r: a
\* call that returns stores its result, empty or not; a call that raises
\* stores nothing
CacheMiss(cache, t, amfi_code, r) ==
    IF r.raised
    THEN [df |-> EmptyFrame, cache |-> cache, requested |-> TRUE, raised |-> TRUE]
    ELSE [df |-> r.df, cache |-> CachePut(cache, t, amfi_code, r.df),
          requested |-> TRUE, raised |-> FALSE]

\* lines 111-136, one call at time t: [df, cache, requested, raised]
get_nav_history(cache, t, rem, amfi_code) ==
    IF CacheFresh(cache, t, amfi_code)
    THEN [df |-> cache[amfi_code].df, cache |-> cache, requested |-> FALSE, raised |-> FALSE]
    ELSE CacheMiss(cache, t, amfi_code, FetchParse(rem[amfi_code]))

NoTrace == [none |-> TRUE, name |-> <<>>, dash |-> FALSE, x |-> <<>>, y |-> <<>>]

\* lines 338-363: what one target adds to the figure, given its fetched frame
ChartTrace(df, t, months) ==
    IF df = EmptyFrame THEN NoTrace
    ELSE LET win == ChartFilter(df, months)
         IN  IF win = EmptyFrame THEN NoTrace
             ELSE [none |-> FALSE,
                   name |-> t.name,
                   dash |-> t.is_guest,
                   x |-> [i \in 1..Len(win) |-> win[i].date],
                   y |-> Normalized(win)]

\* lines 391-401: what one target adds to metrics_list, given its fetched frame
MetricsRow(df_m, t, months_m) ==
    IF df_m = EmptyFrame THEN NoRow
    ELSE calculate_metrics(MetricsFilter(df_m, months_m), t.name)

----------------------------------------------------------------------------
(* 4. UI: the selection handlers                                           *)

InSeq(x, q) == \E i \in 1..Len(q) : q[i] = x

\* the handler without its membership test
AddSelectedNoCheck(basket, funds_to_add) == basket \o funds_to_add

\* lines 256-259: for fund in funds_to_add: append it unless it is in the basket
RECURSIVE AddSelected(_, _)
AddSelected(basket, funds_to_add) ==
    IF funds_to_add = <<>> THEN basket
    ELSE IF ~InSeq(Head(funds_to_add), basket)
    THEN AddSelected(Append(basket, Head(funds_to_add)), Tail(funds_to_add))
    ELSE AddSelected(basket, Tail(funds_to_add))

\* lines 268-275: the active list's multiselect after the user has unchecked
\* entries: the entries at the positions kept, in basket order
RECURSIVE KeepPositions(_, _, _)
KeepPositions(basket, keep, i) ==
    IF i > Len(basket) THEN <<>>
    ELSE (IF i \in keep THEN <<basket[i]>> ELSE <<>>) \o KeepPositions(basket, keep, i + 1)

----------------------------------------------------------------------------
(* 5. CHART ENGINE                                                         *)

\* lines 298-304: one target per basket item, in basket order
BasketTargets(basket) ==
    [i \in 1..Len(basket) |->
        [code |-> basket[i].amfi, name |-> basket[i].name, is_guest |-> FALSE]]

\* the guest code without normalization of an input the index does not know
ResolveGuestCodeVerbatim(g_input, raw) ==
    IF Upper(Strip(g_input)) \in DOMAIN raw /\ Truthy(raw[Upper(Strip(g_input))].amfi)
    THEN StrOfAmfi(raw[Upper(Strip(g_input))].amfi)
    ELSE g_input

\* lines 308-315: the code fetched for a non-empty guest input
ResolveGuestCode(g_input, raw) ==
    LET clean_input == Upper(Strip(g_input))
    IN  IF clean_input \in DOMAIN raw /\ Truthy(raw[clean_input].amfi)
        THEN StrOfAmfi(raw[clean_input].amfi)
        ELSE clean_input

\* str is empty or whitespace only
Blank(text) == \A i \in 1..Len(text) : text[i] = " "

\* st.text_input("Label", value="Benchmark")
Benchmark == <<"B", "e", "n", "c", "h", "m", "a", "r", "k">>

\* a guest target that falls back to "Benchmark" for a blank label
GuestTargetsDefaultLabel(g_input, g_name, raw) ==
    IF g_input # <<>>
    THEN <<[code |-> ResolveGuestCode(g_input, raw),
            name |-> IF Blank(g_name) THEN Benchmark ELSE g_name,
            is_guest |-> TRUE]>>
    ELSE <<>>

\* lines 307-321: the guest target, if any
GuestTargets(g_input, g_name, raw) ==
    IF g_input # <<>>
    THEN <<[code |-> ResolveGuestCode(g_input, raw), name |-> g_name, is_guest |-> TRUE]>>
    ELSE <<>>

\* target assembly that drops a guest whose code the basket already has
ResolveDedup(basket, g_input, g_name, raw) ==
    IF \E i \in 1..Len(basket) :
           <<basket[i].amfi>> = [k \in 1..Len(GuestTargets(g_input, g_name, raw)) |->
                                    GuestTargets(g_input, g_name, raw)[k].code]
    THEN BasketTargets(basket)
    ELSE BasketTargets(basket) \o GuestTargets(g_input, g_name, raw)

\* lines 296-321: final_targets
Resolve(basket, g_input, g_name, raw) ==
    BasketTargets(basket) \o GuestTargets(g_input, g_name, raw)

\* fig.add_trace, when the target has a trace
TraceList(tr) == IF tr.none THEN <<>> ELSE <<tr>>

\* metrics_list.append(m), if m
RowList(m) == IF m.none THEN <<>> ELSE <<m>>

\* lines 332-363, one iteration: the loop's state acc = [cache, reqs, fig,
\* raised] after target tg, whose get_nav_history call gave r.  An exception
\* out of get_nav_history would end the script there.
ChartStep(acc, tg, r, label) ==
    [cache |-> r.cache,
     reqs |-> acc.reqs \o (IF r.requested THEN <<tg.code>> ELSE <<>>),
     fig |-> IF r.raised \/ r.df = EmptyFrame THEN acc.fig
             ELSE acc.fig \o TraceList(ChartTrace(r.df, tg, time_map[label])),
     raised |-> r.raised]

\* lines 332-363: the fetch-and-plot loop over the targets left, in order
RECURSIVE ChartLoop(_, _, _, _, _)
ChartLoop(targets, acc, t, rem, label) ==
    IF targets = <<>> \/ acc.raised THEN acc
    ELSE ChartLoop(Tail(targets),
                   ChartStep(acc, Head(targets),
                             get_nav_history(acc.cache, t, rem, Head(targets).code), label),
                   t, rem, label)

\* lines 389-401, one iteration: acc = [cache, reqs, rows, raised]
MetricsStep(acc, tg, r, label) ==
    [cache |-> r.cache,
     reqs |-> acc.reqs \o (IF r.requested THEN <<tg.code>> ELSE <<>>),
     rows |-> IF r.raised \/ r.df = EmptyFrame THEN acc.rows
              ELSE acc.rows \o RowList(MetricsRow(r.df, tg, time_map[label])),
     raised |-> r.raised]

\* lines 388-401: the metrics loop, a second call of get_nav_history per target
RECURSIVE MetricsLoop(_, _, _, _, _)
MetricsLoop(targets, acc, t, rem, label) ==
    IF targets = <<>> \/ acc.raised THEN acc
    ELSE MetricsLoop(Tail(targets),
                     MetricsStep(acc, Head(targets),
                                 get_nav_history(acc.cache, t, rem, Head(targets).code), label),
                     t, rem, label)

\* lines 386-404: the run's result once both loops are done
WithMetrics(c, m) ==
    [cache |-> m.cache, reqs |-> c.reqs \o m.reqs, fig |-> c.fig, has_data |-> TRUE,
     metrics |-> IF m.raised THEN <<>> ELSE m.rows, error |-> m.raised]

\* lines 365-406: after the chart loop has ended as c
AfterChart(targets, c, t, rem, label) ==
    IF c.raised
    THEN [cache |-> c.cache, reqs |-> c.reqs, fig |-> <<>>, has_data |-> FALSE,
          metrics |-> <<>>, error |-> TRUE]
    ELSE IF c.fig = <<>>
    THEN [cache |-> c.cache, reqs |-> c.reqs, fig |-> <<>>, has_data |-> FALSE,
          metrics |-> <<>>, error |-> FALSE]
    ELSE WithMetrics(c, MetricsLoop(targets,
                                    [cache |-> c.cache, reqs |-> <<>>, rows |-> <<>>,
                                     raised |-> FALSE],
                                    t, rem, label))

\* lines 323-406: [cache, reqs, fig, has_data, metrics, error].  fig and
\* metrics are what the page shows: the chart and the table are rendered only
\* when has_data, and not at all when the script has ended in an exception.
FetchAndPlot(targets, cache, t, rem, label) ==
    IF targets = <<>>
    THEN [cache |-> cache, reqs |-> <<>>, fig |-> <<>>, has_data |-> FALSE,
          metrics |-> <<>>, error |-> FALSE]
    ELSE AfterChart(targets,
                    ChartLoop(targets,
                              [cache |-> cache, reqs |-> <<>>, fig |-> <<>>, raised |-> FALSE],
                              t, rem, label),
                    t, rem, label)

\* the record of network requests, brought up to date with a run's requests
RECURSIVE NoteFetches(_, _, _, _)
NoteFetches(log, t, reqs, cache) ==
    IF reqs = <<>> THEN log
    ELSE NoteFetches(CachePut(log, t, Head(reqs),
                              IF Head(reqs) \in DOMAIN cache THEN cache[Head(reqs)].df
                              ELSE EmptyFrame),
                     t, Tail(reqs), cache)

----------------------------------------------------------------------------
(* Variable groups and their values before the page has done anything      *)

regVars == <<registry_file, loaded, amc_map, raw_registry, load_error>>
sessionVars == <<compare_basket, guest_input, guest_name, range_label>>
fetchVars == <<remote, nav_cache, now, net_requests, last_fetch, call>>
engineVars == <<final_targets, fig, has_data, metrics_list, page_error, ran>>
seriesVars == <<series_in, series_out>>

NoCall == [code |-> <<>>, made |-> FALSE, df |-> <<>>]

\* session state and sidebar widgets of a fresh session (lines 182, 189-190, 226-228)
SessionFresh ==
    /\ compare_basket = <<>>
    /\ guest_input = <<>>
    /\ guest_name = Benchmark
    /\ range_label = "1Y"

FetchFresh ==
    /\ nav_cache = <<>>
    /\ now = 0
    /\ net_requests = <<>>
    /\ last_fetch = <<>>
    /\ call = NoCall

EngineFresh ==
    /\ final_targets = <<>>
    /\ fig = <<>>
    /\ has_data = FALSE
    /\ metrics_list = <<>>
    /\ page_error = FALSE
    /\ ran = FALSE

SeriesFresh ==
    /\ series_in = <<>>
    /\ series_out = <<>>

----------------------------------------------------------------------------
(* Registry loading on its own                                             *)

MaxEntries == 2

IsinPool == {<<"K">>, <<"L">>, <<"k">>}
SchemePool == {<<>>, <<" ">>, <<"a", " ", "b">>, <<"A">>, <<"B">>}
AmfiPool == {AmfiAbsent, AmfiStr(<<>>), AmfiStr(<<"1">>), AmfiNum(0), AmfiNum(12)}

MetaPool ==
    {[has_scheme |-> TRUE, scheme |-> n, amfi |-> a] : n \in SchemePool, a \in AmfiPool}
    \cup {[has_scheme |-> FALSE, scheme |-> <<>>, amfi |-> a] : a \in AmfiPool}

EntryPool == {[isin |-> k, meta |-> m] : k \in IsinPool, m \in MetaPool}

\* a JSON object has one member per key
EntryLists ==
    UNION {{es \in [1..n -> EntryPool] :
               \A i, j \in 1..n : i # j => es[i].isin # es[j].isin} : n \in 0..MaxEntries}

RegistryFiles ==
    {[status |-> "missing", entries |-> <<>>], [status |-> "malformed", entries |-> <<>>]}
    \cup {[status |-> "ok", entries |-> es] : es \in EntryLists}

InitLoad ==
    /\ registry_file \in RegistryFiles
    /\ loaded = FALSE
    /\ amc_map = EmptyDict
    /\ raw_registry = EmptyDict
    /\ load_error = FALSE
    /\ remote = <<>>
    /\ SessionFresh /\ FetchFresh /\ EngineFresh /\ SeriesFresh

\* line 171: amc_map, raw_registry = load_fund_registry()
LoadRegistry ==
    /\ ~loaded
    /\ LET r == LoadFundRegistry(registry_file)
       IN  /\ amc_map' = r.amc
           /\ raw_registry' = r.raw
           /\ load_error' = r.err
    /\ loaded' = TRUE
    /\ UNCHANGED <<registry_file, sessionVars, fetchVars, engineVars, seriesVars>>

NextLoad == LoadRegistry

SpecLoad == InitLoad /\ [][NextLoad]_vars

\* the registry entries that carry a source code, and those that do not
WithCode == {e \in Range(registry_file.entries) : Truthy(e.meta.amfi)}
WithoutCode == {e \in Range(registry_file.entries) : ~Truthy(e.meta.amfi)}

\* the groups of the grouped view that list an item
GroupsOf(item) == {g \in DOMAIN amc_map : item \in Range(amc_map[g])}

\* the load ended in its except branch or found no file
LoadFailed ==
    \/ registry_file.status # "ok"
    \/ \E e \in WithCode : EntryName(e) # <<>> /\ \A i \in 1..Len(EntryName(e)) : EntryName(e)[i] = " "

\* how many entries of a list satisfy Truthy(amfi)
RECURSIVE CountWithCode(_)
CountWithCode(es) ==
    IF es = <<>> THEN 0
    ELSE (IF Truthy(Head(es).meta.amfi) THEN 1 ELSE 0) + CountWithCode(Tail(es))

RECURSIVE SumLen(_, _)
SumLen(f, keys) ==
    IF keys = {} THEN 0
    ELSE LET k == CHOOSE x \in keys : TRUE
         IN  Len(f[k]) + SumLen(f, keys \ {k})

\* C8 (as stated): after load(), every entry with a non-empty source code is
\* listed in exactly one group, the one keyed by the uppercased first token of
\* its scheme name ("OTHER" for an empty name), and every entry without a
\* source code is absent from the identifier lookup view and from the grouped view.
C8_AsStated ==
    loaded =>
        /\ \A e \in WithCode : GroupsOf(Item(e)) = {FirstWord(EntryName(e))}
        /\ \A e \in WithoutCode :
              /\ e.isin \notin DOMAIN raw_registry
              /\ \A g \in DOMAIN amc_map : \A it \in Range(amc_map[g]) : it.name # EntryName(e) \/ \E w \in WithCode : Item(w) = it

\* C8 (amended): after a load() that does not fail, every entry with a
\* non-empty source code is listed in exactly one group, the one keyed by the
\* uppercased first token of its scheme name ("OTHER" for an empty name), the
\* grouped view lists nothing else, and the identifier lookup view is the whole
\* file: it keeps the entries without a source code.  A load that fails (no
\* file, malformed JSON, or a fetchable entry whose name is only whitespace)
\* returns both views empty.
C8_RegistryIndex ==
    loaded =>
        IF LoadFailed
        THEN amc_map = EmptyDict /\ raw_registry = EmptyDict
        ELSE /\ \A e \in WithCode : GroupsOf(Item(e)) = {FirstWord(EntryName(e))}
             /\ SumLen(amc_map, DOMAIN amc_map) = CountWithCode(registry_file.entries)
             /\ \A g \in DOMAIN amc_map : \A it \in Range(amc_map[g]) :
                   \E e \in WithCode : it = Item(e)
             /\ DOMAIN raw_registry = {e.isin : e \in Range(registry_file.entries)}
             /\ \A e \in Range(registry_file.entries) : raw_registry[e.isin] = e.meta

\* a loaded registry with a fetchable entry in its group and an entry without a
\* source code that the lookup view still holds
C8_Witness ==
    /\ loaded /\ ~LoadFailed
    /\ \E e \in WithCode : GroupsOf(Item(e)) = {FirstWord(EntryName(e))}
    /\ \E e \in WithoutCode : e.isin \in DOMAIN raw_registry

----------------------------------------------------------------------------
(* The series functions on their own                                       *)

MaxPoints == 3

\* NAV records the API can return: month-end and leap-day edges of the
\* lookback windows, 328 and 329 days before the latest date, a repeated
\* date and zero NAVs
RowPool ==
    { Row(Date(2024, 5, 31), 1200), Row(Date(2024, 5, 31), 0),
      Row(Date(2024, 2, 29), 1100), Row(Date(2024, 2, 28), 1000),
      Row(Date(2023, 7, 8), 0),     Row(Date(2023, 7, 7), 1000),
      Row(Date(2023, 5, 31), 1000), Row(Date(2023, 5, 30), 900),
      Row(Date(2019, 5, 31), 500),  Row(Date(2018, 1, 15), 800) }

\* the API's "data" lists: records in any order
RawLists ==
    UNION {{rs \in [1..n -> RowPool] : \A i, j \in 1..n : i # j => rs[i] # rs[j]} :
              n \in 0..MaxPoints}

\* the frames get_nav_history returns for them
Frames == {SortValues(rs) : rs \in RawLists}

SeriesTarget == [code |-> <<"1">>, name |-> <<"A">>, is_guest |-> FALSE]

NoOutput == [done |-> FALSE, win |-> EmptyFrame, win_m |-> EmptyFrame,
             trace |-> NoTrace, row |-> NoRow]

InitSeries ==
    /\ series_in \in Frames
    /\ series_out = NoOutput
    /\ range_label \in DOMAIN time_map
    /\ compare_basket = <<>> /\ guest_input = <<>> /\ guest_name = Benchmark
    /\ registry_file = [status |-> "missing", entries |-> <<>>]
    /\ loaded = FALSE /\ amc_map = EmptyDict /\ raw_registry = EmptyDict
    /\ load_error = FALSE
    /\ remote = <<>>
    /\ FetchFresh /\ EngineFresh

\* the chart engine's handling of one fetched frame (lines 338-363, 391-401)
ProcessSeries ==
    /\ ~series_out.done
    /\ LET months == time_map[range_label]
       IN  series_out' =
               [done |-> TRUE,
                win |-> IF series_in = EmptyFrame THEN EmptyFrame
                        ELSE ChartFilter(series_in, months),
                win_m |-> IF series_in = EmptyFrame THEN EmptyFrame
                          ELSE MetricsFilter(series_in, months),
                trace |-> ChartTrace(series_in, SeriesTarget, months),
                row |-> MetricsRow(series_in, SeriesTarget, months)]
    /\ UNCHANGED <<series_in, regVars, sessionVars, fetchVars, engineVars>>

NextSeries == ProcessSeries

SpecSeries == InitSeries /\ [][NextSeries]_vars

\* latest minus L calendar months, stated on its own: the date in the month
\* L months before latest's month, on latest's day or that month's last day
CalendarCutoff(latest, L) ==
    CHOOSE c \in [y : (latest.y - 6)..latest.y, m : 1..12, d : 1..31] :
        /\ 12 * c.y + c.m = 12 * latest.y + latest.m - L
        /\ c.d <= DaysInMonth(c.y, c.m)
        /\ c.d <= latest.d
        /\ c.d = latest.d \/ c.d = DaysInMonth(c.y, c.m)

DateLE(a, b) ==
    \/ a.y < b.y
    \/ a.y = b.y /\ a.m < b.m
    \/ a.y = b.y /\ a.m = b.m /\ a.d <= b.d

\* the latest date of a non-empty frame
Latest(S) == CHOOSE dt \in {S[i].date : i \in 1..Len(S)} :
                 \A i \in 1..Len(S) : DateLE(S[i].date, dt)

\* out is S restricted to the rows dated cutoff or later, in S's order
KeepsExactly(S, out, cutoff) ==
    LET kept == {i \in 1..Len(S) : DateLE(cutoff, S[i].date)}
        nth(k) == CHOOSE i \in kept : Cardinality({j \in kept : j <= i}) = k
    IN  /\ Len(out) = Cardinality(kept)
        /\ \A k \in 1..Len(out) : out[k] = S[nth(k)]

WindowOk(S, out, label) ==
    IF label = "Max" THEN out = S
    ELSE KeepsExactly(S, out, CalendarCutoff(Latest(S), time_map[label]))

\* C6: for a non-empty series S and a lookback of 3, 6, 12, 24, 36 or 60
\* months, the filter keeps exactly the points dated latest(S) minus L calendar
\* months or later; "Max" keeps every point; filtering the result again
\* changes nothing.  Both copies of the filter (chart, metrics) are covered.
C6_WindowFilter ==
    (series_out.done /\ series_in # EmptyFrame) =>
        /\ WindowOk(series_in, series_out.win, range_label)
        /\ WindowOk(series_in, series_out.win_m, range_label)
        /\ series_out.win # EmptyFrame
        /\ ChartFilter(series_out.win, time_map[range_label]) = series_out.win
        /\ MetricsFilter(series_out.win_m, time_map[range_label]) = series_out.win_m

\* a filter has dropped a point, kept a point dated exactly at the cutoff,
\* and the cutoff day was clipped to a month end
C6_Witness ==
    /\ series_out.done /\ series_in # EmptyFrame /\ range_label = "3M"
    /\ Len(series_out.win) < Len(series_in)
    /\ Latest(series_in) = Date(2024, 5, 31)
    /\ \E i \in 1..Len(series_out.win) : series_out.win[i].date = Date(2024, 2, 29)

\* C7: a filtered series of fewer than 2 points gets no metrics row; one of
\* 2 or more points gets a row whose total return is reported and whose CAGR
\* reads "N/A" exactly when years = days / 365.25 < 0.9.
C7_CagrPolicy ==
    (series_out.done /\ series_in # EmptyFrame) =>
        LET f == series_out.win_m
            row == series_out.row
            days == Ordinal(f[Len(f)].date) - Ordinal(f[1].date)
        IN  IF Len(f) < 2 THEN row.none
            ELSE /\ ~row.none
                 /\ row.Fund = SeriesTarget.name
                 /\ row.cagr_na <=> (1000 * days < 328725)
                 /\ f[1].nav # 0 =>
                        /\ row.total_return.cls = "num"
                        /\ row.total_return.n * f[1].nav
                              = row.total_return.d * (f[Len(f)].nav - f[1].nav) * 100
                 /\ f[1].nav = 0 => row.total_return.cls \in {"inf", "-inf", "nan"}

\* rows with a computed CAGR, with "N/A", and a series too short for a row
C7_WitnessNumber ==
    /\ series_out.done /\ ~series_out.row.none /\ ~series_out.row.cagr_na
    /\ series_out.row.cagr_days = 329

C7_WitnessNA ==
    /\ series_out.done /\ ~series_out.row.none /\ series_out.row.cagr_na
    /\ series_out.row.cagr_days = 328

C7_WitnessShort ==
    /\ series_out.done /\ Len(series_in) >= 2 /\ Len(series_out.win_m) = 1
    /\ series_out.row.none

----------------------------------------------------------------------------
(* get_nav_history on its own: calls, the clock and the remote API         *)

\* the clock stops here
MaxClock == 129600

TickSteps == {43200, 86399, 86400}

FetchCodes == {<<"1">>, <<"2">>}

FetchResponses ==
    { Response("http_error", <<>>),
      Response("ok", <<Row(Date(2024, 5, 31), 1200), Row(Date(2023, 5, 31), 1000)>>),
      Response("ok", <<Row(Date(2024, 5, 31), 1300)>>) }

InitFetch ==
    /\ remote \in [FetchCodes -> FetchResponses]
    /\ nav_cache = <<>>
    /\ now = 0
    /\ net_requests = <<>>
    /\ last_fetch = <<>>
    /\ call = NoCall
    /\ registry_file = [status |-> "missing", entries |-> <<>>]
    /\ loaded = FALSE /\ amc_map = EmptyDict /\ raw_registry = EmptyDict
    /\ load_error = FALSE
    /\ SessionFresh /\ EngineFresh /\ SeriesFresh

\* one call get_nav_history(code) at the current time
CallGetNavHistory(code) ==
    \E r \in {get_nav_history(nav_cache, now, remote, code)} :
        /\ nav_cache' = r.cache
        /\ call' = [code |-> code, made |-> TRUE, df |-> r.df]
        /\ net_requests' = IF r.requested THEN <<code>> ELSE <<>>
        /\ last_fetch' = IF r.requested THEN CachePut(last_fetch, now, code, r.df)
                          ELSE last_fetch
        /\ UNCHANGED <<remote, now, regVars, sessionVars, engineVars, seriesVars>>

\* time passes
Tick(d) ==
    /\ now + d <= MaxClock
    /\ now' = now + d
    /\ UNCHANGED <<remote, nav_cache, net_requests, last_fetch, call,
                   regVars, sessionVars, engineVars, seriesVars>>

\* the API starts to answer differently for a code
RemoteChanges(code, resp) ==
    /\ remote[code] # resp
    /\ remote' = [remote EXCEPT ![code] = resp]
    /\ UNCHANGED <<nav_cache, now, net_requests, last_fetch, call,
                   regVars, sessionVars, engineVars, seriesVars>>

NextFetch ==
    \/ \E code \in FetchCodes : CallGetNavHistory(code)
    \/ \E d \in TickSteps : Tick(d)
    \/ \E code \in FetchCodes, resp \in FetchResponses : RemoteChanges(code, resp)

SpecFetch == InitFetch /\ [][NextFetch]_vars

\* C2: a call for a code made less than 24 hours after the last network fetch
\* of that code issues no request and returns the series stored by that
\* fetch; a call made when no fetch of the code is that recent issues a request
\* and returns what it parses now.  The stored result may be empty (a failed
\* fetch): it is served within the TTL and re-attempted after it.
C2_CacheTtl ==
    [][\A c \in FetchCodes :
          CallGetNavHistory(c) =>
              IF c \in DOMAIN last_fetch /\ now - last_fetch[c].at < TTL
              THEN /\ net_requests' = <<>>
                   /\ call'.df = last_fetch[c].df
              ELSE /\ net_requests' = <<c>>
                   /\ call'.df = FetchParse(remote[c]).df]_vars

\* a call was served from the cache within the TTL although the API would now
\* answer differently
C2_Witness ==
    /\ call.made /\ net_requests = <<>> /\ now > 0
    /\ now - last_fetch[call.code].at < TTL
    /\ call.df # FetchParse(remote[call.code]).df

\* an empty (failed) result was re-attempted once its TTL had run out
C2_WitnessExpiry ==
    /\ call.made /\ net_requests = <<call.code>> /\ now >= TTL
    /\ last_fetch[call.code].at = now
    /\ call.df = EmptyFrame
    /\ \E c \in FetchCodes \ {call.code} :
          c \in DOMAIN nav_cache /\ nav_cache[c].at + TTL = now

----------------------------------------------------------------------------
(* The page's registry in the session specifications                       *)

\* two funds in group "A" (one of them listed under two ISINs), one in group
\* "B" under a lower-case key, and an entry without an AMFI code
AppRegistry ==
    [status |-> "ok",
     entries |->
       << [isin |-> <<"K">>, meta |-> [has_scheme |-> TRUE, scheme |-> <<"a", " ", "b">>, amfi |-> AmfiStr(<<"1">>)]],
          [isin |-> <<"L">>, meta |-> [has_scheme |-> TRUE, scheme |-> <<"A">>, amfi |-> AmfiNum(12)]],
          [isin |-> <<"k">>, meta |-> [has_scheme |-> TRUE, scheme |-> <<"B">>, amfi |-> AmfiStr(<<"2">>)]],
          [isin |-> <<"B">>, meta |-> [has_scheme |-> TRUE, scheme |-> <<"A", " ", "b">>, amfi |-> AmfiAbsent]],
          [isin |-> <<"H">>, meta |-> [has_scheme |-> TRUE, scheme |-> <<"a", " ", "b">>, amfi |-> AmfiNum(1)]] >>]

RegistryLoaded ==
    /\ registry_file = AppRegistry
    /\ loaded = TRUE
    /\ amc_map = LoadFundRegistry(AppRegistry).amc
    /\ raw_registry = LoadFundRegistry(AppRegistry).raw
    /\ load_error = LoadFundRegistry(AppRegistry).err

\* every item the selection widgets offer
AllItems == UNION {Range(amc_map[g]) : g \in DOMAIN amc_map}

\* lists of distinct elements of a set, up to a length
DistinctSeqs(S, maxlen) ==
    UNION {{q \in [1..n -> S] : \A i, j \in 1..n : i # j => q[i] # q[j]} : n \in 0..maxlen}

----------------------------------------------------------------------------
(* Target assembly on its own                                              *)

MaxBasket == 2
MaxGuestLen == 3

GuestAlphabet == {" ", "k", "K", "1", "B"}

GuestTexts == UNION {[1..n -> GuestAlphabet] : n \in 0..MaxGuestLen}

LabelPool == {Benchmark, <<>>, <<" ">>, <<"N">>}

InitResolve ==
    /\ RegistryLoaded
    /\ compare_basket \in DistinctSeqs(AllItems, MaxBasket)
    /\ guest_input \in GuestTexts
    /\ guest_name \in LabelPool
    /\ range_label = "1Y"
    /\ remote = <<>>
    /\ FetchFresh /\ EngineFresh /\ SeriesFresh

\* lines 296-321, reached only past the st.stop() of line 224
AssembleTargets ==
    /\ ~ran
    /\ amc_map # EmptyDict
    /\ final_targets' = Resolve(compare_basket, guest_input, guest_name, raw_registry)
    /\ ran' = TRUE
    /\ UNCHANGED <<fig, has_data, metrics_list, page_error,
                   regVars, sessionVars, fetchVars, seriesVars>>

NextResolve == AssembleTargets

SpecResolve == InitResolve /\ [][NextResolve]_vars

\* C3: the targets are the basket entries one-to-one in basket order as
\* non-guest targets (code = the entry's source code, label = its scheme name),
\* followed by exactly one guest-flagged target if guest_input is non-empty and
\* by none otherwise; nothing is deduplicated; an empty basket with an empty
\* guest input gives no target.
C3_ResolveOrder ==
    ran =>
        LET n == Len(compare_basket)
            g == IF guest_input # <<>> THEN 1 ELSE 0
        IN  /\ Len(final_targets) = n + g
            /\ \A i \in 1..n :
                  /\ final_targets[i].code = compare_basket[i].amfi
                  /\ final_targets[i].name = compare_basket[i].name
                  /\ final_targets[i].is_guest = FALSE
            /\ g = 1 => final_targets[n + 1].is_guest = TRUE
            /\ (compare_basket = <<>> /\ guest_input = <<>>) => final_targets = <<>>

\* a guest target follows a basket target that carries the same code
C3_Witness ==
    /\ ran /\ Len(compare_basket) = 2 /\ Len(final_targets) = 3
    /\ final_targets[3].is_guest
    /\ final_targets[3].code = final_targets[1].code

\* the guest target of a run that has one
GuestTarget == final_targets[Len(final_targets)]

\* the registry entry keyed by the normalized guest input, if any
CleanGuest == Upper(Strip(guest_input))

\* C4 (as stated): a normalized input that matches a key of the identifier
\* index gives that entry's source code; any other input is used verbatim,
\* as typed.
C4_AsStated ==
    (ran /\ guest_input # <<>>) =>
        IF CleanGuest \in DOMAIN raw_registry
        THEN GuestTarget.code = StrOfAmfi(raw_registry[CleanGuest].amfi)
        ELSE GuestTarget.code = guest_input

\* C4 (amended): a normalized (trimmed, uppercased) input that matches a key
\* of the identifier index whose entry has a non-empty source code gives that
\* source code, as a string; any other input gives the normalized input, not
\* the input as typed.
C4_GuestCode ==
    (ran /\ guest_input # <<>>) =>
        IF \E e \in Range(registry_file.entries) :
               e.isin = CleanGuest /\ Truthy(e.meta.amfi)
        THEN \E e \in Range(registry_file.entries) :
               /\ e.isin = CleanGuest
               /\ GuestTarget.code = StrOfAmfi(e.meta.amfi)
        ELSE GuestTarget.code = CleanGuest

\* an input typed in lower case with a space resolves through the index
C4_Witness ==
    /\ ran /\ guest_input = <<" ", "k">>
    /\ GuestTarget.is_guest /\ GuestTarget.code = <<"1">>

\* an input that matches no key is fetched in its normalized form
C4_WitnessVerbatim ==
    /\ ran /\ guest_input = <<"1", " ">>
    /\ GuestTarget.is_guest /\ GuestTarget.code = <<"1">>

----------------------------------------------------------------------------
(* The fetch-and-plot step on its own                                      *)

MaxTargets == 2

EngineCodes == {<<"1">>, <<"2">>, <<"3">>}

GoodRows == <<Row(Date(2024, 5, 31), 1200), Row(Date(2023, 5, 31), 1000)>>

\* the first NAV is zero inside the 3-month window, not over all history
ZeroRows ==
    <<Row(Date(2024, 5, 31), 1200), Row(Date(2024, 2, 29), 0), Row(Date(2023, 5, 30), 900)>>

EngineResponses ==
    { Response("transport_error", <<>>), Response("http_error", <<>>),
      Response("bad_json", <<>>), Response("no_data_key", <<>>),
      Response("bad_record", <<>>), Response("ok", <<>>),
      Response("ok", GoodRows), Response("ok", ZeroRows) }

\* what each code may answer: every failure for "1", fewer for the others
EngineWorlds ==
    {w \in [EngineCodes -> EngineResponses] :
        /\ w[<<"2">>] \in {Response("transport_error", <<>>), Response("ok", <<>>),
                           Response("ok", GoodRows), Response("ok", ZeroRows)}
        /\ w[<<"3">>] \in {Response("bad_json", <<>>), Response("ok", GoodRows)}}

EngineLabels == {"3M", "Max"}

\* target lists as Resolve builds them: basket targets, then at most one guest
EngineTargetLists ==
    {b \o g :
        b \in DistinctSeqs({[code |-> c, name |-> c, is_guest |-> FALSE] : c \in EngineCodes},
                           MaxTargets),
        g \in {<<>>} \cup {<<[code |-> c, name |-> Benchmark, is_guest |-> TRUE]>> :
                               c \in EngineCodes}}

InitEngine ==
    /\ final_targets \in EngineTargetLists
    /\ remote \in EngineWorlds
    /\ range_label \in EngineLabels
    /\ RegistryLoaded
    /\ compare_basket = <<>> /\ guest_input = <<>> /\ guest_name = Benchmark
    /\ fig = <<>> /\ has_data = FALSE /\ metrics_list = <<>>
    /\ page_error = FALSE /\ ran = FALSE
    /\ FetchFresh /\ SeriesFresh

\* lines 323-406 on the targets assembled
FetchAndPlotStep ==
    /\ ~ran
    /\ \E r \in {FetchAndPlot(final_targets, nav_cache, now, remote, range_label)} :
           /\ nav_cache' = r.cache
           /\ net_requests' = r.reqs
           /\ last_fetch' = NoteFetches(last_fetch, now, r.reqs, r.cache)
           /\ fig' = r.fig
           /\ has_data' = r.has_data
           /\ metrics_list' = r.metrics
           /\ page_error' = r.error
    /\ ran' = TRUE
    /\ UNCHANGED <<final_targets, remote, now, call, regVars, sessionVars, seriesVars>>

NextEngine == FetchAndPlotStep

SpecEngine == InitEngine /\ [][NextEngine]_vars

RemoveAt(q, i) == SubSeq(q, 1, i - 1) \o SubSeq(q, i + 1, Len(q))

\* the API's answer for a code is one of the failures the claim lists
FetchFails(resp) ==
    \/ resp.kind \in {"transport_error", "http_error", "bad_json", "no_data_key", "bad_record"}
    \/ resp.kind = "ok" /\ resp.rows = <<>>

\* what the page shows for a target list, from a cold cache
ShownOf(r) == [fig |-> r.fig, has_data |-> r.has_data, metrics |-> r.metrics,
               error |-> r.error]

Shown(targets) == ShownOf(FetchAndPlot(targets, <<>>, now, remote, range_label))

ShownNow == [fig |-> fig, has_data |-> has_data, metrics |-> metrics_list,
             error |-> page_error]

\* C1: a target whose fetch fails (transport error, non-success status,
\* malformed body, empty list) does not end the run in an exception; its series
\* is empty; and the page shows for the other targets exactly the traces and
\* metrics rows, in the same order, that it shows when the failed target is
\* left out of the list.
C1_FailureIsolation ==
    ran =>
        /\ ~page_error
        /\ \A i \in 1..Len(final_targets) :
              FetchFails(remote[final_targets[i].code]) =>
                  /\ nav_cache[final_targets[i].code].df = EmptyFrame
                  /\ ShownNow = Shown(RemoveAt(final_targets, i))

\* a failed target stands between two targets that are plotted and tabulated
C1_Witness ==
    /\ ran /\ Len(final_targets) = 3
    /\ remote[final_targets[2].code].kind = "transport_error"
    /\ Len(fig) = 2 /\ Len(metrics_list) = 2
    /\ fig[1].name = final_targets[1].name /\ fig[2].name = final_targets[3].name

\* target i's series, filtered to the window, starts with a zero NAV
ZeroFirstNav(i) ==
    LET code == final_targets[i].code
        df == nav_cache[code].df
    IN  /\ code \in DOMAIN nav_cache
        /\ df # EmptyFrame
        /\ ChartFilter(df, time_map[range_label])[1].nav = 0

\* C9: a target whose filtered series starts with a zero NAV is treated as a
\* failed fetch for that target only: the page shows what it shows when the
\* target is left out (no trace, no metrics row, no has_data on its account).
C9_ZeroNavGuard ==
    ran =>
        \A i \in 1..Len(final_targets) :
            ZeroFirstNav(i) => ShownNow = Shown(RemoveAt(final_targets, i))

----------------------------------------------------------------------------
(* The session: every interaction re-runs the whole script                 *)

MaxSelect == 2

AppCodes == {<<"1">>, <<"1", "2">>, <<"2">>, <<"3">>}

AppGuestInputs == {<<>>, <<"k">>, <<"3">>}

AppLabels == {Benchmark, <<>>, <<"N">>}

\* the lookbacks picked during the session
AppLookbacks == {"1Y", "Max"}

\* the API during the session: code "2" is down, code "3" has a zero NAV
AppWorlds ==
    { [c \in AppCodes |-> IF c = <<"2">> THEN Response("http_error", <<>>)
                          ELSE IF c = <<"3">> THEN Response("ok", ZeroRows)
                          ELSE Response("ok", GoodRows)] }

\* the state after the first run of the script in a fresh session: nothing
\* selected, no guest, so no target and nothing fetched
Init ==
    /\ RegistryLoaded
    /\ SessionFresh
    /\ remote \in AppWorlds
    /\ FetchFresh
    /\ final_targets = <<>>
    /\ fig = <<>> /\ has_data = FALSE /\ metrics_list = <<>>
    /\ page_error = FALSE
    /\ ran = TRUE
    /\ SeriesFresh

\* the rest of a script run once the handlers have left the basket as b and
\* the sidebar reads gi, gn, rl: lines 290-406
RunPage(b, gi, gn, rl) ==
    /\ amc_map # EmptyDict
    /\ compare_basket' = b
    /\ guest_input' = gi
    /\ guest_name' = gn
    /\ range_label' = rl
    /\ final_targets' = Resolve(b, gi, gn, raw_registry)
    /\ \E r \in {FetchAndPlot(Resolve(b, gi, gn, raw_registry), nav_cache, now, remote, rl)} :
           /\ nav_cache' = r.cache
           /\ net_requests' = r.reqs
           /\ last_fetch' = NoteFetches(last_fetch, now, r.reqs, r.cache)
           /\ fig' = r.fig
           /\ has_data' = r.has_data
           /\ metrics_list' = r.metrics
           /\ page_error' = r.error
    /\ ran' = TRUE
    /\ UNCHANGED <<remote, now, call, regVars, seriesVars>>

\* the multiselect's value: options picked, in the order picked
Picked(fund_options, picks) == [i \in 1..Len(picks) |-> fund_options[picks[i]]]

\* lines 234-261: an AMC is chosen, funds are picked, "Add Fund" is clicked
AddFund(selected_amc, picks) ==
    LET fund_options == amc_map[selected_amc]
        funds_to_add == Picked(fund_options, picks)
    IN  RunPage(AddSelected(compare_basket, funds_to_add),
                guest_input, guest_name, range_label)

\* lines 264-280: entries of the active list are unchecked; the basket is
\* replaced and the script re-run
UncheckFunds(keep) ==
    /\ compare_basket # <<>>
    /\ LET updated_basket == KeepPositions(compare_basket, keep, 1)
       IN  /\ Len(updated_basket) # Len(compare_basket)
           /\ RunPage(updated_basket, guest_input, guest_name, range_label)

\* lines 283-285: "Clear List", shown while the basket is not empty
ClearList ==
    /\ compare_basket # <<>>
    /\ RunPage(<<>>, guest_input, guest_name, range_label)

\* line 189: the guest code field is edited
EditGuestInput(text) ==
    /\ text # guest_input
    /\ RunPage(compare_basket, text, guest_name, range_label)

\* line 190: the guest label field is edited
EditGuestName(text) ==
    /\ text # guest_name
    /\ RunPage(compare_basket, guest_input, text, range_label)

\* line 182: another lookback pill is picked
PickLookback(l) ==
    /\ l # range_label
    /\ RunPage(compare_basket, guest_input, guest_name, l)

Next ==
    \/ \E g \in DOMAIN amc_map :
          \E picks \in DistinctSeqs(1..Len(amc_map[g]), MaxSelect) : AddFund(g, picks)
    \/ \E keep \in SUBSET (1..Len(compare_basket)) : UncheckFunds(keep)
    \/ ClearList
    \/ \E text \in AppGuestInputs : EditGuestInput(text)
    \/ \E text \in AppLabels : EditGuestName(text)
    \/ \E l \in AppLookbacks : PickLookback(l)

Spec == Init /\ [][Next]_vars

HasGuest == final_targets # <<>> /\ final_targets[Len(final_targets)].is_guest

\* C5 (as stated): a guest target is guest-flagged and labelled with the label
\* the user supplied, or "Benchmark" if that label is blank.
C5_AsStated ==
    guest_input # <<>> =>
        /\ HasGuest
        /\ GuestTarget.name = IF Blank(guest_name) THEN Benchmark ELSE guest_name

\* C5 (amended): a guest target is guest-flagged and labelled with the text of
\* the Label field as it stands: "Benchmark" is only the text the field starts
\* with, and a field the user has blanked gives a blank label.
C5_GuestLabel ==
    /\ guest_input # <<>> => (HasGuest /\ GuestTarget.name = guest_name)
    /\ guest_input = <<>> => ~HasGuest

\* a guest target whose label the user has blanked
C5_Witness ==
    /\ guest_input # <<>> /\ guest_name = <<>>
    /\ HasGuest /\ GuestTarget.name = <<>>

NoDuplicates(q) == \A i, j \in 1..Len(q) : i # j => q[i] # q[j]

\* the picked funds that are new to the basket, each once, in the order picked
NewPicks(basket, funds) ==
    LET isNew(i) == /\ \A k \in 1..Len(basket) : basket[k] # funds[i]
                    /\ \A k \in 1..(i - 1) : funds[k] # funds[i]
        idx == {i \in 1..Len(funds) : isNew(i)}
        nth(k) == CHOOSE i \in idx : Cardinality({j \in idx : j <= i}) = k
    IN  [k \in 1..Cardinality(idx) |-> funds[nth(k)]]

\* the sidebar reads the same before and after a step
SidebarKept ==
    guest_input' = guest_input /\ guest_name' = guest_name /\ range_label' = range_label

\* C10: the basket never holds two equal entries; a step in which Add Fund
\* has handled a selection leaves the basket as it was, followed by exactly the
\* picked funds that were not in it yet, each once, in the order picked; and a
\* run that only re-reads the sidebar (guest code, guest label, lookback)
\* leaves the basket as it is.
C10_Basket ==
    /\ []NoDuplicates(compare_basket)
    /\ [][/\ \A g \in DOMAIN amc_map :
               \A picks \in DistinctSeqs(1..Len(amc_map[g]), MaxSelect) :
                   (/\ SidebarKept
                    /\ compare_basket' = AddSelected(compare_basket, Picked(amc_map[g], picks)))
                   => compare_basket' =
                          compare_basket \o NewPicks(compare_basket, Picked(amc_map[g], picks))
          /\ ~SidebarKept => compare_basket' = compare_basket]_vars

\* a basket built by several Add clicks, not in the order the widget lists
\* the funds, with its targets plotted
C10_Witness ==
    /\ Len(compare_basket) = 3
    /\ compare_basket[1].name = <<"B">>
    /\ Len(final_targets) >= 3

============================================================================
